---- MODULE Spec2Model ----
(***************************************************************************)
(* Model of the conversation context store of the Telex agent              *)
(* (src/context_manager.py, class ContextManager) and of the callers in    *)
(* src/telex_agent.py that reach it.                                       *)
(*                                                                         *)
(* Time is counted in hours.  A datetime is an integer number of hours; an *)
(* ISO-8601 string is the pair <<day, hour>>.  The file system is a map    *)
(* from the identifier a path is built from to the content of that path.   *)
(***************************************************************************)
EXTENDS Integers, Sequences, FiniteSets, TLC

VARIABLES inflight,   \* per request handler: where it stands and its response
          contexts,   \* self.contexts: id -> record
          order,      \* insertion order of the keys of self.contexts
          files,      \* content of each file, under the name file_path gives it
          now,        \* datetime.now()
          appended,   \* per live record: the entries its history must hold
          last,       \* the last call: operation, identifier, outcome
          held        \* the history list a caller kept from get_history

vars == <<contexts, order, files, now, appended, last, held, inflight>>

----------------------------------------------------------------------------
(* Bounds and inputs *)

MaxTime == 25
MaxEntries == 2
MaxTurns == 2

\* "../x" is an identifier whose path leaves the storage directory
ValidIds == {"c1", "c2"}
Ids == ValidIds \cup {"../x"}
AliasIds == {"c1", "./c1"}
ClockSteps == {12, 13}

\* an A2AMessage (has model_dump) and a plain, already serializable entry
Messages == {[model |-> TRUE, text |-> "hello"], [model |-> FALSE, text |-> "hi"]}

\* the request handlers that can be in flight at once, the user messages of
\* their requests, and the task ids a request may carry ("" is None)
Handlers == {"h1", "h2"}
UserMessages == {[model |-> TRUE, text |-> "hello"], [model |-> TRUE, text |-> "thanks"]}
NoId == ""
TaskIds == {NoId, "t1"}

\* outcomes of open(file_path, "w") followed by json.dump
IoOutcomes == {"ok", "open_fails", "write_fails"}

----------------------------------------------------------------------------
(* Values *)

max_context_age == 24

None == -1
EmptyMeta == {}
SomeMeta == {<<"lang", "en">>}

NoFile == [kind |-> "none"]
Partial == [kind |-> "partial"]

\* file_path = os.path.join(self.storage_dir, f"{context_id}.json"): the file
\* the operating system resolves that path to, named as its path from
\* storage_dir without the suffix ("./c1.json" in storage_dir is c1.json)
file_path(id) == IF id = "./c1" THEN "c1" ELSE id
Paths == {file_path(id) : id \in Ids \cup AliasIds}

\* the file is an entry of storage_dir, the directory os.listdir scans
InDir(p) == p \in ValidIds

\* datetime.isoformat / datetime.fromisoformat
isoformat(t) == <<t \div 24, t % 24>>
IsIsoString(s) == Len(s) = 2 /\ s[1] >= 0 /\ s[2] \in 0..23
fromisoformat(s) == s[1] * 24 + s[2]
NoKey == <<>>
NotADate == <<0, 99>>

\* msg.model_dump() if hasattr(msg, "model_dump") else msg
model_dump(msg) == [model |-> FALSE, text |-> msg.text]
Portable(msg) == IF msg.model THEN model_dump(msg) ELSE msg
PortableSeq(h) == [i \in 1..Len(h) |-> Portable(h[i])]

\* A caller's reference to a history list: live while the list is the one the
\* record of id holds (its content is then contexts[id].history), and after
\* that a list of its own with the content it had.
NoHandle == [id |-> "", live |-> FALSE, content |-> <<>>]
Handle(id) == [id |-> id, live |-> TRUE, content |-> <<>>]
\* the record of id lets go of its history list
Detach(st, id) ==
    IF st.H.live /\ st.H.id = id
    THEN [st EXCEPT !.H = [id |-> id, live |-> FALSE, content |-> st.C[id].history]]
    ELSE st

Without(C, id) == [k \in DOMAIN C \ {id} |-> C[k]]
With(C, id, rec) == [k \in DOMAIN C \cup {id} |-> IF k = id THEN rec ELSE C[k]]
Remove(O, id) == SelectSeq(O, LAMBDA k : k # id)
Insert(O, id) == IF \E i \in 1..Len(O) : O[i] = id THEN O ELSE Append(O, id)

----------------------------------------------------------------------------
(* _load_contexts *)

\* json.load succeeds and datetime.fromisoformat accepts the timestamp
Loadable(f) ==
    /\ f.kind = "doc"
    /\ (f.last_updated = NoKey \/ IsIsoString(f.last_updated))

\* a load that leaves last_updated the string of the file, which the sweep's
\* isinstance(last_updated, datetime) test passes over
LoadRecord_keeps_string(f) ==
    [history |-> f.history, last_updated |-> None, metadata |-> f.metadata]

LoadRecord(f) ==
    [history |-> f.history,
     last_updated |-> IF f.last_updated = NoKey THEN None
                      ELSE fromisoformat(f.last_updated),
     metadata |-> f.metadata]

\* one pass of the for loop over os.listdir, the inner try around each file
\* a loop whose first unreadable file ends the scan
RECURSIVE LoadFrom_stops_at_bad_file(_, _, _)
LoadFrom_stops_at_bad_file(listing, F, acc) ==
    IF listing = <<>> THEN acc
    ELSE LET id == Head(listing) IN
         IF Loadable(F[id])
         THEN LoadFrom_stops_at_bad_file(Tail(listing), F,
                       [C |-> With(acc.C, id, LoadRecord(F[id])),
                        O |-> Insert(acc.O, id)])
         ELSE acc

RECURSIVE LoadFrom(_, _, _)
LoadFrom(listing, F, acc) ==
    IF listing = <<>> THEN acc
    ELSE LET id == Head(listing) IN
         IF Loadable(F[id])
         THEN LoadFrom(Tail(listing), F,
                       [C |-> With(acc.C, id, LoadRecord(F[id])),
                        O |-> Insert(acc.O, id)])
         ELSE LoadFrom(Tail(listing), F, acc)

_load_contexts(listing, F) == LoadFrom(listing, F, [C |-> <<>>, O |-> <<>>])

\* the orders in which os.listdir may return the files of storage_dir
Listings(F) ==
    LET present == {p \in Paths : InDir(p) /\ F[p].kind # "none"} IN
    {s \in UNION {[1..n -> present] : n \in {Cardinality(present)}} :
        \A i, j \in DOMAIN s : i # j => s[i] # s[j]}

----------------------------------------------------------------------------
(* save_context *)

Serialize(rec) ==
    [kind |-> "doc",
     history |-> PortableSeq(rec.history),
     last_updated |-> IF rec.last_updated = None THEN NoKey
                      ELSE isoformat(rec.last_updated),
     metadata |-> rec.metadata]

\* the file after open(file_path, "w") and json.dump, by outcome
Written(old, rec, io) ==
    CASE io = "ok" -> Serialize(rec)
      [] io = "open_fails" -> old
      [] io = "write_fails" -> Partial

\* a save that converts the entries of the record itself
save_context_converts_record(st, id, io) ==
    IF id \in DOMAIN st.C
    THEN [st EXCEPT !.C = [st.C EXCEPT ![id].history = PortableSeq(@)],
                    !.F = [st.F EXCEPT ![file_path(id)] =
                                      Written(st.F[file_path(id)], st.C[id], io)],
                    !.fs = st.fs \cup {<<"write", file_path(id)>>},
                    !.io = io]
    ELSE st

save_context(st, id, io) ==
    IF id \in DOMAIN st.C
    THEN [st EXCEPT !.F = [st.F EXCEPT ![file_path(id)] =
                                      Written(st.F[file_path(id)], st.C[id], io)],
                    !.fs = st.fs \cup {<<"write", file_path(id)>>},
                    !.io = io]
    ELSE st

----------------------------------------------------------------------------
(* delete_context and _clean_expired_contexts *)

\* a delete that forgets the file
delete_context_keeps_file(st, id, locked) ==
    IF id \in DOMAIN st.C
    THEN [st EXCEPT !.C = Without(st.C, id), !.O = Remove(st.O, id), !.ret = "True"]
    ELSE [st EXCEPT !.ret = "False"]

\* a delete that removes the file and leaves the record in the mapping
delete_context_keeps_record(st, id, locked) ==
    IF id \in DOMAIN st.C
    THEN [st EXCEPT !.F = [st.F EXCEPT ![file_path(id)] = NoFile], !.ret = "True"]
    ELSE [st EXCEPT !.ret = "False"]

\* a delete that removes the file of an identifier it has no record of
delete_context_removes_stray_file(st, id, locked) ==
    IF id \in DOMAIN st.C
    THEN [st EXCEPT !.C = Without(st.C, id), !.O = Remove(st.O, id),
                    !.F = [st.F EXCEPT ![file_path(id)] = NoFile], !.ret = "True"]
    ELSE [st EXCEPT !.F = [st.F EXCEPT ![file_path(id)] = NoFile], !.ret = "False"]

delete_context(st, id, locked) ==
    IF id \in DOMAIN st.C
    THEN LET gone == [Detach(st, id) EXCEPT
                         !.C = Without(st.C, id), !.O = Remove(st.O, id),
                         !.fs = st.fs \cup {<<"exists", file_path(id)>>}] IN
         IF st.F[file_path(id)].kind # "none"
         THEN IF id \in locked
              THEN [gone EXCEPT !.fs = gone.fs \cup {<<"remove", file_path(id)>>},
                                !.ret = "raised"]
              ELSE [gone EXCEPT !.F = [st.F EXCEPT ![file_path(id)] = NoFile],
                                !.fs = gone.fs \cup {<<"remove", file_path(id)>>},
                                !.ret = "True"]
         ELSE [gone EXCEPT !.ret = "True"]
    ELSE [st EXCEPT !.ret = "False"]

\* a sweep that also takes the records whose age is exactly the maximum
IsExpired_at_limit(rec, t) ==
    rec.last_updated # None /\ (t - rec.last_updated) >= max_context_age

IsExpired(rec, t) ==
    rec.last_updated # None /\ (t - rec.last_updated) > max_context_age

Expired(C, t) == {id \in DOMAIN C : IsExpired(C[id], t)}

RECURSIVE DeleteAll(_, _, _)
DeleteAll(st, ids, locked) ==
    IF ids = <<>> THEN [st EXCEPT !.ret = "ok"]
    ELSE LET r == delete_context(st, Head(ids), locked) IN
         IF r.ret = "raised" THEN r ELSE DeleteAll(r, Tail(ids), locked)

_clean_expired_contexts(st, t, locked) ==
    DeleteAll(st, SelectSeq(st.O, LAMBDA id : IsExpired(st.C[id], t)), locked)

----------------------------------------------------------------------------
(* get_context, add_message, get_history, clear_context *)

NewRecord(t) == [history |-> <<>>, last_updated |-> t, metadata |-> EmptyMeta]

\* a lookup that touches the record before it sweeps
get_context_touches_first(st, id, t, locked) ==
    LET s == IF id \in DOMAIN st.C
             THEN [st EXCEPT !.C = [st.C EXCEPT ![id].last_updated = t]]
             ELSE [st EXCEPT !.C = With(st.C, id, NewRecord(t)), !.O = Insert(st.O, id)]
    IN _clean_expired_contexts(s, t, locked)

\* a lookup that hands out a new record every time
get_context_recreates(st, id, t, locked) ==
    LET s == _clean_expired_contexts(st, t, locked) IN
    IF s.ret = "raised" THEN s
    ELSE [s EXCEPT !.C = With(s.C, id, NewRecord(t)), !.O = Insert(s.O, id)]

\* a lookup that leaves the timestamp of a record it finds as it was
get_context_no_touch(st, id, t, locked) ==
    LET s == _clean_expired_contexts(st, t, locked) IN
    IF s.ret = "raised" THEN s
    ELSE IF id \notin DOMAIN s.C
         THEN [s EXCEPT !.C = With(s.C, id, NewRecord(t)), !.O = Insert(s.O, id)]
         ELSE s

get_context(st, id, t, locked) ==
    LET s == _clean_expired_contexts(st, t, locked) IN
    IF s.ret = "raised" THEN s
    ELSE IF id \notin DOMAIN s.C
         THEN [s EXCEPT !.C = With(s.C, id, NewRecord(t)), !.O = Insert(s.O, id)]
         ELSE [s EXCEPT !.C = [s.C EXCEPT ![id].last_updated = t]]

\* a history that takes each new entry at its front
add_message_prepends(st, id, message, t, locked, io) ==
    LET s == get_context(st, id, t, locked) IN
    IF s.ret = "raised" THEN s
    ELSE save_context(
           [s EXCEPT !.C = [s.C EXCEPT ![id].history = <<message>> \o @,
                                       ![id].last_updated = t]],
           id, io)

\* an append that is undone when the save fails
add_message_rolls_back(st, id, message, t, locked, io) ==
    LET s == get_context(st, id, t, locked) IN
    IF s.ret = "raised" THEN s
    ELSE IF io = "ok"
         THEN save_context(
                [s EXCEPT !.C = [s.C EXCEPT ![id].history = Append(@, message),
                                            ![id].last_updated = t]],
                id, io)
         ELSE save_context(s, id, io)

\* an append that returns before the record is saved
add_message_skips_save(st, id, message, t, locked, io) ==
    LET s == get_context(st, id, t, locked) IN
    IF s.ret = "raised" THEN s
    ELSE [s EXCEPT !.C = [s.C EXCEPT ![id].history = Append(@, message),
                                     ![id].last_updated = t]]

add_message(st, id, message, t, locked, io) ==
    LET s == get_context(st, id, t, locked) IN
    IF s.ret = "raised" THEN s
    ELSE save_context(
           [s EXCEPT !.C = [s.C EXCEPT ![id].history = Append(@, message),
                                       ![id].last_updated = t]],
           id, io)

get_history(st, id, t, locked) == get_context(st, id, t, locked)

\* a clear that leaves the file as it was
clear_context_skips_save(st, id, t, io) ==
    IF id \in DOMAIN st.C
    THEN [st EXCEPT !.C = [st.C EXCEPT ![id].history = <<>>,
                                       ![id].last_updated = t],
                    !.ret = "True"]
    ELSE [st EXCEPT !.ret = "False"]

\* a clear that creates the record it does not find
clear_context_creates(st, id, t, io) ==
    IF id \in DOMAIN st.C
    THEN [save_context(
            [st EXCEPT !.C = [st.C EXCEPT ![id].history = <<>>,
                                          ![id].last_updated = t]],
            id, io) EXCEPT !.ret = "True"]
    ELSE [st EXCEPT !.C = With(st.C, id, NewRecord(t)), !.O = Insert(st.O, id),
                    !.ret = "False"]

\* a clear that resets the timestamp instead of touching it
clear_context_resets_stamp(st, id, t, io) ==
    IF id \in DOMAIN st.C
    THEN [save_context(
            [st EXCEPT !.C = [st.C EXCEPT ![id].history = <<>>,
                                          ![id].last_updated = 0]],
            id, io) EXCEPT !.ret = "True"]
    ELSE [st EXCEPT !.ret = "False"]

\* self.contexts[context_id]["history"] = [] binds a new list to the record
clear_context(st, id, t, io) ==
    IF id \in DOMAIN st.C
    THEN [save_context(
            [Detach(st, id) EXCEPT !.C = [st.C EXCEPT ![id].history = <<>>,
                                                  ![id].last_updated = t]],
            id, io) EXCEPT !.ret = "True"]
    ELSE [st EXCEPT !.ret = "False"]

----------------------------------------------------------------------------
(* TelexAgent: a2a_endpoint, process_messages, _process_query *)

NoResult == [kind |-> "none"]
\* TaskResult(status=TaskStatus(state="completed", message=...), history=...)
Completed(message, history) ==
    [kind |-> "result", state |-> "completed", message |-> message, history |-> history]
\* _create_error_result: a TaskResult with state "failed" and no history
ErrorResult ==
    [kind |-> "result", state |-> "failed",
     message |-> [model |-> TRUE, text |-> "Error"], history |-> <<>>]
\* the JSONResponse of status 500 with error code -32603
InternalError == [kind |-> "error", status |-> "500"]

\* a handler: idle, or waiting for its webhook with the context and user
\* message of its request and the result it holds
Idle == [pc |-> "idle", id |-> NoId, user |-> NoResult, res |-> NoResult]

\* ResponseGenerator.generate_response: texts random.choice picks from for a
\* greeting, and a text for thanks
generate_response(query) ==
    IF query = "hello" THEN {"Hello there!", "Hey!"}
    ELSE {"You're welcome!"}
AgentMessage(text) == [model |-> TRUE, text |-> text]

\* the state a sequence of store calls has reached, taken as one value
Only(S) == CHOOSE s \in S : TRUE
\* except Exception as e: return self._create_error_result(...)
Failed(s) == [s EXCEPT !.res = ErrorResult, !.ret = "ok"]

_process_query(st, context_id, task_id, reply, t, locked, io) ==
    Only({IF h.ret = "raised" THEN Failed(h)
          ELSE Only({IF a.ret = "raised" THEN Failed(a)
                     ELSE Only({IF g.ret = "raised" THEN Failed(g)
                                ELSE [g EXCEPT !.res = Completed(AgentMessage(reply),
                                                         g.C[context_id].history)] :
                                g \in {get_history(a, context_id, t, locked)}}) :
                     a \in {add_message(h, context_id, AgentMessage(reply), t, locked, io)}}) :
          h \in {get_history(st, context_id, t, locked)}})

\* a handler that does not store the user message
process_messages_drops_user_message(st, context_id, task_id, user_message, reply, t, locked, io) ==
    IF task_id = NoId \/ context_id = NoId
    THEN [st EXCEPT !.ret = "raised"]
    ELSE Only({IF c.ret = "raised" THEN c
               ELSE _process_query(c, context_id, task_id, reply, t, locked, io) :
               c \in {get_context(st, context_id, t, locked)}})

\* task_id or str(uuid4()): the module imports uuid and no name uuid4, so
\* the right operand raises NameError when the left one is None
process_messages(st, context_id, task_id, user_message, reply, t, locked, io) ==
    IF task_id = NoId \/ context_id = NoId
    THEN [st EXCEPT !.ret = "raised"]
    ELSE Only({IF c.ret = "raised" THEN c
               ELSE Only({IF u.ret = "raised" THEN u
                          ELSE _process_query(u, context_id, task_id, reply, t, locked, io) :
                          u \in {add_message(c, context_id, user_message, t, locked, io)}}) :
               c \in {get_context(st, context_id, t, locked)}})

\* the context and task ids a2a_endpoint takes from the request
ContextOf(method, channel, context_id) ==
    IF method = "message/send" THEN channel ELSE context_id
TaskOf(method, task_id) == IF method = "message/send" THEN NoId ELSE task_id

a2a_endpoint(st, method, channel, context_id, task_id, user_message, reply, t, locked, io) ==
    Only({IF r.ret = "raised" THEN [r EXCEPT !.res = InternalError, !.ret = "ok"]
          ELSE r :
          r \in {process_messages(st, ContextOf(method, channel, context_id),
                                  TaskOf(method, task_id), user_message, reply,
                                  t, locked, io)}})

----------------------------------------------------------------------------
(* The state machine *)

Current ==
    [C |-> contexts, O |-> order, F |-> files, H |-> held, T |-> inflight,
     fs |-> {}, ret |-> "ok", io |-> "none", res |-> NoResult]

\* the record of a call: what was called, how it ended ("raised" when an
\* exception left it), what its save did, which records were expired at its
\* start, whether it is the first call on this ContextManager, and the
\* response when the call is a request that was answered
Call(op, id, r, swept) ==
    [op |-> op, id |-> id, ret |-> r.ret, io |-> r.io, swept |-> swept,
     first |-> last.op = "__init__", res |-> r.res]
Started == [op |-> "__init__", id |-> "", ret |-> "ok", io |-> "none", swept |-> {},
            first |-> FALSE, res |-> NoResult]

Commit(r) ==
    /\ contexts' = r.C
    /\ order' = r.O
    /\ files' = r.F
    /\ held' = r.H
    /\ inflight' = r.T

RECURSIVE SumLen(_, _)
SumLen(C, S) ==
    IF S = {} THEN 0
    ELSE LET k == CHOOSE k \in S : TRUE IN Len(C[k].history) + SumLen(C, S \ {k})
TotalLen(C) == SumLen(C, DOMAIN C)

\* files a storage directory may hold when the process starts
GoodFile ==
    [kind |-> "doc", history |-> <<[model |-> FALSE, text |-> "hi"]>>,
     last_updated |-> isoformat(0), metadata |-> SomeMeta]
UndatedFile ==
    [kind |-> "doc", history |-> <<>>, last_updated |-> NoKey, metadata |-> EmptyMeta]
MisdatedFile ==
    [kind |-> "doc", history |-> <<>>, last_updated |-> NotADate, metadata |-> EmptyMeta]
InitialFiles == {NoFile, Partial, GoodFile, UndatedFile, MisdatedFile}

\* ContextManager.__init__ on a directory holding F, listed in some order
Constructed(F, C, O, A) ==
    \E listing \in Listings(F) :
       LET r == _load_contexts(listing, F) IN
       /\ C = r.C
       /\ O = r.O
       /\ A = [k \in DOMAIN r.C |-> r.C[k].history]

\* the directories in which only the identifiers of S have a file
Directories(S) ==
    {f \in [Paths -> InitialFiles] : \A p \in Paths \ S : f[p] = NoFile}

InitOn(S) ==
    /\ now = 0
    /\ files \in Directories(S)
    /\ Constructed(files, contexts, order, appended)
    /\ last = Started
    /\ held = NoHandle
    /\ inflight = [h \in Handlers |-> Idle]

Init == InitOn({"c1"})

\* the process stops and a new ContextManager is built on the same directory
Restart ==
    /\ Constructed(files, contexts', order', appended')
    /\ last' = Started
    /\ held' = NoHandle
    /\ inflight' = [h \in Handlers |-> Idle]
    /\ UNCHANGED <<files, now>>

\* the clock moves by hours; a handler waits for its webhook at most the
\* ten seconds of the timeout of client.post
Tick ==
    /\ \A h \in Handlers : inflight[h].pc # "sending"
    /\ \E d \in ClockSteps : now + d <= MaxTime /\ now' = now + d
    /\ UNCHANGED <<contexts, order, files, appended, last, held, inflight>>

\* what the histories must hold after a lookup: a record swept or created by
\* the call starts empty, any other keeps its entries
AfterLookup(r) ==
    [k \in DOMAIN r.C |->
        IF k \in DOMAIN contexts /\ (r.ret = "raised" \/ k \notin Expired(contexts, now))
        THEN appended[k] ELSE <<>>]

GetContextOn(id, locked) ==
    LET r == get_context(Current, id, now, locked) IN
    /\ Commit(r)
    /\ last' = Call("get_context", id, r, Expired(contexts, now))
    /\ appended' = AfterLookup(r)
    /\ UNCHANGED now

GetHistoryOn(id, locked) ==
    LET r == get_history(Current, id, now, locked) IN
    /\ Commit(r)
    /\ last' = Call("get_history", id, r, Expired(contexts, now))
    /\ appended' = AfterLookup(r)
    /\ UNCHANGED now

AddMessageOn(id, message, locked, io) ==
    LET r == add_message(Current, id, message, now, locked, io) IN
    /\ TotalLen(contexts) < MaxEntries
    /\ Commit(r)
    /\ last' = Call("add_message", id, r, Expired(contexts, now))
    /\ appended' = IF r.ret = "raised" THEN AfterLookup(r)
                   ELSE [AfterLookup(r) EXCEPT ![id] = Append(@, message)]
    /\ UNCHANGED now

ClearContextOn(id, io) ==
    LET r == clear_context(Current, id, now, io) IN
    /\ Commit(r)
    /\ last' = Call("clear_context", id, r, {})
    /\ appended' = IF id \in DOMAIN contexts
                   THEN [appended EXCEPT ![id] = <<>>] ELSE appended
    /\ UNCHANGED now

DeleteContextOn(id, locked) ==
    LET r == delete_context(Current, id, locked) IN
    /\ Commit(r)
    /\ last' = Call("delete_context", id, r, {})
    /\ appended' = [k \in DOMAIN r.C |-> appended[k]]
    /\ UNCHANGED now

\* GET /contexts: list(self.contexts.keys()), the keys in insertion order
list_contexts(st) == [st EXCEPT !.ret = "ok"]
Listed(st) == st.O

ListContexts ==
    LET r == list_contexts(Current) IN
    /\ Commit(r)
    /\ last' = Call("list_contexts", "", r, {})
    /\ UNCHANGED <<now, appended>>

\* POST /a2a/telex handled by h up to the response, or up to the await of
\* send_webhook_response when the deployment and the request ask for one
A2aEndpointOn(h, method, channel, context_id, task_id, user_message, reply, webhook) ==
    /\ TotalLen(contexts) + 2 <= 2 * MaxTurns
    /\ inflight[h] = Idle
    /\ \E r \in {a2a_endpoint(Current, method, channel, context_id, task_id,
                               user_message, reply, now, {}, "ok")} :
       LET cid == ContextOf(method, channel, context_id)
           sends == webhook /\ r.res.kind = "result" IN
       /\ Commit([r EXCEPT !.T = [inflight EXCEPT ![h] =
                      IF sends
                      THEN [pc |-> "sending", id |-> cid, user |-> user_message,
                            res |-> r.res]
                      ELSE Idle]])
       /\ last' = Call(method, cid, IF sends THEN [r EXCEPT !.res = NoResult] ELSE r,
                       Expired(contexts, now))
       /\ appended' = IF r.res.kind = "error"
                      THEN appended
                      ELSE [AfterLookup(r) EXCEPT ![cid] =
                               @ \o <<user_message, AgentMessage(reply)>>]
       /\ UNCHANGED now

\* send_webhook_response has returned: process_messages returns the result
\* and a2a_endpoint builds the response from it
WebhookDoneOn(h) ==
    /\ inflight[h].pc = "sending"
    /\ inflight' = [inflight EXCEPT ![h] = Idle]
    /\ last' = [op |-> "send_webhook_response", id |-> inflight[h].id, ret |-> "ok",
                io |-> "none", swept |-> {}, first |-> FALSE,
                res |-> inflight[h].res]
    /\ UNCHANGED <<contexts, order, files, now, appended, held>>

(* The store called with well-formed identifiers on a file system whose    *)
(* operations succeed.                                                     *)
GetContext == \E id \in ValidIds : GetContextOn(id, {})
GetHistory == \E id \in ValidIds : GetHistoryOn(id, {})
AddMessage == \E id \in ValidIds, message \in Messages : AddMessageOn(id, message, {}, "ok")
ClearContext == \E id \in ValidIds : ClearContextOn(id, "ok")
DeleteContext == \E id \in ValidIds : DeleteContextOn(id, {})

Next ==
    \/ GetContext
    \/ GetHistory
    \/ AddMessage
    \/ ClearContext
    \/ DeleteContext
    \/ Tick
    \/ Restart

Spec == Init /\ [][Next]_vars

(* The same store on a file system whose writes and removals may fail.     *)
FaultyIds == {"c1"}

\* the files one call hands to os.remove, and the sets of them that os.remove
\* may refuse to remove during that call
Removals(ids) == {k \in ids : k \in DOMAIN contexts /\ files[file_path(k)] # NoFile}
LockedSets(ids) == SUBSET Removals(ids)
Sweep == Expired(contexts, now)

FaultyGetContext ==
    \E id \in FaultyIds, locked \in LockedSets(Sweep) : GetContextOn(id, locked)
FaultyGetHistory ==
    \E id \in FaultyIds, locked \in LockedSets(Sweep) : GetHistoryOn(id, locked)
FaultyAddMessage ==
    \E id \in FaultyIds, message \in Messages, locked \in LockedSets(Sweep),
       io \in IoOutcomes :
          AddMessageOn(id, message, locked, io)
FaultyClearContext == \E id \in FaultyIds, io \in IoOutcomes : ClearContextOn(id, io)
FaultyDeleteContext ==
    \E id \in FaultyIds :
       \E locked \in LockedSets({id}) : DeleteContextOn(id, locked)

NextFaulty ==
    \/ FaultyGetContext
    \/ FaultyGetHistory
    \/ FaultyAddMessage
    \/ FaultyClearContext
    \/ FaultyDeleteContext
    \/ Tick
    \/ Restart

SpecFaulty == InitOn(ValidIds) /\ [][NextFaulty]_vars

(* The same store called with any identifier a request may carry.          *)
AnyIds == {"c1", "../x"}
AnyGetContext == \E id \in AnyIds : GetContextOn(id, {})
AnyGetHistory == \E id \in AnyIds : GetHistoryOn(id, {})
AnyAddMessage == \E id \in AnyIds, message \in Messages : AddMessageOn(id, message, {}, "ok")
AnyClearContext == \E id \in AnyIds : ClearContextOn(id, "ok")
AnyDeleteContext == \E id \in AnyIds : DeleteContextOn(id, {})

NextAnyId ==
    \/ AnyGetContext
    \/ AnyGetHistory
    \/ AnyAddMessage
    \/ AnyClearContext
    \/ AnyDeleteContext
    \/ Tick
    \/ Restart

SpecAnyId == Init /\ [][NextAnyId]_vars

(* The store called with two spellings of one file name.                   *)
AliasGetContext == \E id \in AliasIds : GetContextOn(id, {})
AliasGetHistory == \E id \in AliasIds : GetHistoryOn(id, {})
AliasAddMessage ==
    \E id \in AliasIds, message \in Messages : AddMessageOn(id, message, {}, "ok")
AliasClearContext == \E id \in AliasIds : ClearContextOn(id, "ok")
AliasDeleteContext == \E id \in AliasIds : DeleteContextOn(id, {})

NextAlias ==
    \/ AliasGetContext
    \/ AliasGetHistory
    \/ AliasAddMessage
    \/ AliasClearContext
    \/ AliasDeleteContext
    \/ Tick
    \/ Restart

SpecAlias == Init /\ [][NextAlias]_vars

(* The same store with a caller that keeps the list get_history returned.  *)
HolderIds == {"c1"}

\* the sequence the caller sees through the list it kept
HeldSeq == IF held.live THEN contexts[held.id].history ELSE held.content

\* history = self.context_manager.get_history(context_id), kept by the caller
KeepHistoryOn(id) ==
    LET r == get_history(Current, id, now, {}) IN
    /\ Commit([r EXCEPT !.H = Handle(id)])
    /\ last' = Call("get_history", id, r, Expired(contexts, now))
    /\ appended' = AfterLookup(r)
    /\ UNCHANGED now

\* history.append(message) by the caller, on the list it kept
CallerAppendOn(message) ==
    /\ held.id # ""
    /\ TotalLen(contexts) + Len(held.content) < MaxEntries
    /\ IF held.live
       THEN /\ contexts' = [contexts EXCEPT ![held.id].history = Append(@, message)]
            /\ appended' = [appended EXCEPT ![held.id] = Append(@, message)]
            /\ UNCHANGED held
       ELSE /\ held' = [held EXCEPT !.content = Append(@, message)]
            /\ UNCHANGED <<contexts, appended>>
    /\ last' = [op |-> "append", id |-> held.id, ret |-> "ok", io |-> "none",
                swept |-> {}, first |-> FALSE, res |-> NoResult]
    /\ UNCHANGED <<order, files, now, inflight>>

KeepHistory == \E id \in HolderIds : KeepHistoryOn(id)
CallerAppend == \E message \in Messages : CallerAppendOn(message)
HolderGetContext == \E id \in HolderIds : GetContextOn(id, {})
HolderAddMessage ==
    \E id \in HolderIds, message \in Messages : AddMessageOn(id, message, {}, "ok")
HolderClearContext == \E id \in HolderIds : ClearContextOn(id, "ok")
HolderDeleteContext == \E id \in HolderIds : DeleteContextOn(id, {})

NextHolder ==
    \/ KeepHistory
    \/ CallerAppend
    \/ HolderGetContext
    \/ HolderAddMessage
    \/ HolderClearContext
    \/ HolderDeleteContext
    \/ Tick
    \/ Restart

SpecHolder == Init /\ [][NextHolder]_vars

(* The agent: requests to /a2a/telex handled by two handlers, with GET and *)
(* DELETE /contexts/{context_id} between their steps.                      *)
AgentIds == {"c1"}
MessageSend ==
    \E h \in Handlers, channel \in AgentIds, user_message \in UserMessages,
       webhook \in BOOLEAN :
       \E reply \in generate_response(user_message.text) :
          A2aEndpointOn(h, "message/send", channel, NoId, NoId, user_message,
                        reply, webhook)
Execute ==
    \E h \in Handlers, context_id \in AgentIds, task_id \in TaskIds,
       user_message \in UserMessages, webhook \in BOOLEAN :
       \E reply \in generate_response(user_message.text) :
          A2aEndpointOn(h, "execute", NoId, context_id, task_id, user_message,
                        reply, webhook)
WebhookDone == \E h \in Handlers : WebhookDoneOn(h)
GetContextEndpoint == \E id \in AgentIds : GetContextOn(id, {})
DeleteContextEndpoint == \E id \in AgentIds : DeleteContextOn(id, {})

NextAgent ==
    \/ MessageSend
    \/ Execute
    \/ WebhookDone
    \/ GetContextEndpoint
    \/ DeleteContextEndpoint
    \/ Tick
    \/ Restart

SpecAgent == Init /\ [][NextAgent]_vars

(* The same store with the listing of GET /contexts among its calls.        *)
NextListing ==
    \/ Next
    \/ ListContexts

SpecListing == Init /\ [][NextListing]_vars

----------------
(* Properties *)

Hello == [model |-> TRUE, text |-> "hello"]
Hi == [model |-> FALSE, text |-> "hi"]

\* C1: the history of every live record is exactly the entries appended to it
\* by add_message since it was created, cleared or loaded, in call order,
\* whatever was done to other identifiers in between; get_history returns
\* that history.
C1_AppendOrder ==
    \A id \in DOMAIN contexts : contexts[id].history = appended[id]

\* get_history returns two different entries in the order they were appended
\* while another identifier holds a record of its own
C1_Witness ==
    /\ last.op = "get_history" /\ last.ret = "ok"
    /\ contexts[last.id].history \in {<<Hello, Hi>>, <<Hi, Hello>>}
    /\ \E other \in DOMAIN contexts : other # last.id

\* a record older than the maximum age at time t
TooOld(rec, t) == rec.last_updated # None /\ t - rec.last_updated > max_context_age
Fresh(t) == [history |-> <<>>, last_updated |-> t, metadata |-> {}]
Lookups == {"get_context", "get_history", "add_message"}
Malformed(id) == id \notin ValidIds

\* the step is a call of one of the operations ops (Tick alone moves the
\* clock, and every call leaves its record in last)
Called(ops) == now' = now /\ last'.op \in ops
Returned(ops) == Called(ops) /\ last'.ret = "ok"

\* C2: a lookup (get_context, get_history, add_message) that returns never
\* hands back what a record too old at the time of the call held: every such
\* record has left the mapping, its file no longer holds its document, and the
\* record returned for an expired identifier is a new one with empty metadata
\* and no entry but the one the call itself appends.
C2_NoExpiredContent ==
    [][Returned(Lookups) =>
         /\ \A k \in DOMAIN contexts' : ~TooOld(contexts'[k], now)
         /\ \A k \in DOMAIN contexts : TooOld(contexts[k], now) =>
               /\ k # last'.id => k \notin DOMAIN contexts'
               /\ k = last'.id =>
                    /\ contexts'[k].metadata = {}
                    /\ contexts'[k].last_updated = now
                    /\ Len(contexts'[k].history) =
                          (IF last'.op = "add_message" THEN 1 ELSE 0)
               /\ files'[k].kind = "doc" =>
                    (k = last'.id /\ files'[k].last_updated = isoformat(now))
      ]_vars

\* a lookup of an identifier whose record was too old has returned: the store
\* holds a new record for it and the old file is gone
C2_Witness ==
    /\ last.op \in Lookups /\ last.ret = "ok"
    /\ last.id \in last.swept
    /\ contexts[last.id] = Fresh(now)
    /\ files[last.id] = NoFile

\* C3: a record whose last_updated is one unit more than the maximum age in
\* the past is, after a get_context call on any identifier that returns, no
\* longer the record the store holds, and its file no longer exists.
C3_SweptOnAnyLookup ==
    [][Returned({"get_context"}) =>
         \A k \in DOMAIN contexts :
            (/\ contexts[k].last_updated # None
             /\ contexts[k].last_updated = now - max_context_age - 1) =>
               /\ k # last'.id => k \notin DOMAIN contexts'
               /\ k = last'.id => contexts'[k] = Fresh(now)
               /\ files'[k] = NoFile
      ]_vars

\* get_context on one identifier has swept the record and the file of another
C3_Witness ==
    /\ last.op = "get_context" /\ last.ret = "ok"
    /\ \E k \in last.swept :
          k # last.id /\ k \notin DOMAIN contexts /\ files[k] = NoFile
    /\ now = max_context_age + 1

\* C4: no save ever leaves a truncated or partial document where a reader
\* saw a complete one (or none) before.
C4_SaveIsAllOrNothing ==
    [][\A id \in Ids : files'[id] = Partial => files[id] = Partial]_vars

\* C5: between operations, on a file system whose writes succeed, the file
\* of every record in the mapping holds exactly that record.
C5_FileEqualsRecord ==
    \A id \in DOMAIN contexts : files[id] = Serialize(contexts[id])

\* C6: a record whose file holds it, as saved, is found again under the same
\* identifier by a new ContextManager on the same directory, with the same
\* history in portable form, metadata and last_updated.
C6_RoundTrip ==
    [][Restart =>
         \A id \in DOMAIN contexts :
            files[id] = Serialize(contexts[id]) =>
               /\ id \in DOMAIN contexts'
               /\ contexts'[id].history = PortableSeq(contexts[id].history)
               /\ contexts'[id].metadata = contexts[id].metadata
               /\ contexts'[id].last_updated = contexts[id].last_updated
      ]_vars

\* C7: no lookup ends in an exception.
C7_LookupNeverRaises ==
    last.op \in Lookups => last.ret # "raised"

\* C8: when the write inside add_message fails, add_message still returns, the
\* record in memory ends with the appended message and carries the new
\* last_updated, and a later get_history returns the history with it.
C8_FailedSaveKeepsAppend ==
    /\ [][(Called({"add_message"}) /\ last'.io \in {"open_fails", "write_fails"}) =>
            /\ last'.ret = "ok"
            /\ contexts'[last'.id].last_updated = now
            /\ \E message \in Messages :
                  contexts'[last'.id].history =
                     Append(IF last'.id \in DOMAIN contexts
                               /\ ~TooOld(contexts[last'.id], now)
                            THEN contexts[last'.id].history ELSE <<>>,
                            message)
        ]_vars
    /\ []((last.op = "get_history" /\ last.ret = "ok") =>
             contexts[last.id].history = appended[last.id])

\* add_message has returned after a failed write and the file does not hold
\* the record that now ends with the new message
C8_Witness ==
    /\ last.op = "add_message" /\ last.ret = "ok"
    /\ last.io \in {"open_fails", "write_fails"}
    /\ Len(contexts[last.id].history) >= 1
    /\ contexts[last.id].history = appended[last.id]
    /\ files[last.id] # Serialize(contexts[last.id])

Deserializes(f) == f.kind = "doc" /\ f.last_updated # NotADate

\* C10: after construction every file of the directory that deserializes is in
\* the mapping under its identifier with the history and metadata it holds,
\* whichever other files do not deserialize.
C10_LoadSkipsCorrupt ==
    last.op = "__init__" =>
       \A id \in ValidIds :
          Deserializes(files[id]) =>
             /\ id \in DOMAIN contexts
             /\ contexts[id].history = files[id].history
             /\ contexts[id].metadata = files[id].metadata

\* a store has started on a directory holding a file that does not
\* deserialize next to one that does
C10_Witness ==
    /\ last.op = "__init__"
    /\ \E bad, good \in ValidIds :
          /\ files[bad] \in {Partial, MisdatedFile}
          /\ bad \notin DOMAIN contexts
          /\ Deserializes(files[good])
          /\ good \in DOMAIN contexts

\* C11: get_context on an identifier that has no record inserts a record with
\* empty history, empty metadata and last_updated = now; get_context on an
\* identifier that has a live record returns that record: the entries appended
\* to it so far and its metadata.
C11_GetOrCreate ==
    [][Returned({"get_context"}) =>
         /\ last'.id \in DOMAIN contexts'
         /\ last'.id \notin DOMAIN contexts => contexts'[last'.id] = Fresh(now)
         /\ (last'.id \in DOMAIN contexts /\ ~TooOld(contexts[last'.id], now)) =>
               /\ contexts'[last'.id].history = contexts[last'.id].history
               /\ contexts'[last'.id].history = appended[last'.id]
               /\ contexts'[last'.id].metadata = contexts[last'.id].metadata
      ]_vars

\* get_context has returned a record created in this process that holds the
\* message appended to it since
C11_Witness ==
    /\ last.op = "get_context" /\ last.ret = "ok"
    /\ contexts[last.id].history = <<Hello>>
    /\ contexts[last.id].metadata = {}
    /\ contexts[last.id].last_updated = now

\* C12: clear_context on an identifier that has a record returns True, keeps the
\* record in the mapping with an empty history and last_updated = now, writes
\* that emptied record to its file, and the get_history that follows returns
\* the empty sequence.
C12_ClearEmpties ==
    [][/\ (Called({"clear_context"}) /\ last'.id \in DOMAIN contexts) =>
             /\ last'.ret = "True"
             /\ last'.id \in DOMAIN contexts'
             /\ contexts'[last'.id].history = <<>>
             /\ contexts'[last'.id].last_updated = now
             /\ contexts'[last'.id].metadata = contexts[last'.id].metadata
             /\ files'[last'.id] = Serialize(contexts'[last'.id])
       /\ (/\ last.op = "clear_context" /\ last.ret = "True"
           /\ Returned({"get_history"}) /\ last'.id = last.id) =>
             contexts'[last'.id].history = <<>>
      ]_vars

\* clear_context has returned True on a record that was loaded from a file
\* holding an entry: the record is still there, empty, and so is its file
C12_Witness ==
    /\ last.op = "clear_context" /\ last.ret = "True"
    /\ now > 0
    /\ contexts[last.id] =
          [history |-> <<>>, last_updated |-> now, metadata |-> SomeMeta]
    /\ files[last.id].kind = "doc" /\ files[last.id].history = <<>>

\* C13: clear_context on an identifier that has no record returns False and
\* changes nothing: the mapping (no record created, none modified or swept)
\* and every file stay as they were.
C13_ClearAbsentIsNoOp ==
    [][(Called({"clear_context"}) /\ last'.id \notin DOMAIN contexts) =>
          /\ last'.ret = "False"
          /\ UNCHANGED <<contexts, order, files>>
      ]_vars

\* clear_context has returned False while a record too old to live, with its
\* file, is still in the store
C13_Witness ==
    /\ last.op = "clear_context" /\ last.ret = "False"
    /\ last.id \notin DOMAIN contexts
    /\ \E k \in DOMAIN contexts : TooOld(contexts[k], now) /\ files[k].kind = "doc"

\* C14: delete_context on an identifier that has a record returns True; the
\* identifier has left the mapping and has no file; every other record and
\* every other file is as it was.
C14_DeleteRemoves ==
    [][(Called({"delete_context"}) /\ last'.id \in DOMAIN contexts) =>
          /\ last'.ret = "True"
          /\ files'[last'.id] = NoFile
          /\ DOMAIN contexts' = DOMAIN contexts \ {last'.id}
          /\ \A k \in DOMAIN contexts' : contexts'[k] = contexts[k]
          /\ \A k \in Ids \ {last'.id} : files'[k] = files[k]
      ]_vars

\* delete_context has returned True: its identifier has neither record nor
\* file, and another record still has both
C14_Witness ==
    /\ last.op = "delete_context" /\ last.ret = "True"
    /\ last.id \notin DOMAIN contexts /\ files[last.id] = NoFile
    /\ \E k \in DOMAIN contexts : files[k].kind = "doc"

\* C15: delete_context on an identifier that has no record (never created, or
\* deleted before) returns False and changes neither the mapping nor any file;
\* so a delete_context that directly follows a successful one on the same
\* identifier returns False.
C15_DeleteIdempotent ==
    [][/\ (Called({"delete_context"}) /\ last'.id \notin DOMAIN contexts) =>
             /\ last'.ret = "False"
             /\ UNCHANGED <<contexts, order, files>>
       /\ (/\ last.op = "delete_context" /\ last.ret = "True"
           /\ Called({"delete_context"}) /\ last'.id = last.id) =>
             last'.ret = "False"
      ]_vars

\* delete_context has returned False for an identifier that has no record while
\* a file of that name, which the loader skipped, is still in the directory
C15_Witness ==
    /\ last.op = "delete_context" /\ last.ret = "False"
    /\ last.id \notin DOMAIN contexts
    /\ files[last.id] # NoFile

\* C16: when get_context(id) has returned, the clock has advanced, the record
\* has not expired and get_context(id) is called again, last_updated after the
\* second call is strictly greater than after the first.
C16_TouchOnRead ==
    [][(/\ last.op = "get_context" /\ last.ret = "ok"
        /\ Returned({"get_context"}) /\ last'.id = last.id
        /\ now > contexts[last.id].last_updated
        /\ ~TooOld(contexts[last.id], now)) =>
          contexts'[last'.id].last_updated > contexts[last.id].last_updated
      ]_vars

\* get_context has returned, at a later time than the last write of its file,
\* a record that holds an entry appended earlier, with last_updated = now
C16_Witness ==
    /\ last.op = "get_context" /\ last.ret = "ok"
    /\ contexts[last.id].history = <<Hello>>
    /\ contexts[last.id].last_updated = now
    /\ files[last.id].kind = "doc"
    /\ IsIsoString(files[last.id].last_updated)
    /\ fromisoformat(files[last.id].last_updated) < now

\* C17: while the clock does not go back, no call of get_context, get_history,
\* add_message or clear_context makes the last_updated of a record smaller,
\* as long as the record is neither deleted nor swept.
C17_StampMonotone ==
    [][Called(Lookups \cup {"clear_context"}) =>
          \A k \in DOMAIN contexts \cap DOMAIN contexts' :
             (contexts[k].last_updated # None /\ ~TooOld(contexts[k], now)) =>
                contexts'[k].last_updated >= contexts[k].last_updated
      ]_vars

\* clear_context has touched, later than its creation, a record that holds
\* no entry
C17_Witness ==
    /\ last.op = "clear_context" /\ last.ret = "True"
    /\ now >= max_context_age
    /\ contexts[last.id].last_updated = now
    /\ \E k \in DOMAIN contexts : k # last.id /\ contexts[k].last_updated < now

\* C18: the identifiers GET /contexts returns are those of live records only:
\* none of them belongs to a record whose age exceeds max_context_age at the
\* time of the call.
C18_ListsOnlyLive ==
    [][Called({"list_contexts"}) =>
          \A i \in 1..Len(Listed(Current)') :
             ~TooOld(contexts'[Listed(Current)'[i]], now)
      ]_vars

\* C19: the list get_history returned stays the list the record holds: an
\* entry the caller appends to it is an entry of the record's history, and
\* after clear_context on that identifier it is still the record's list, now
\* empty.
C19_ReturnedListStaysLive ==
    [][/\ (now' = now /\ last'.op = "append" /\ held.live) =>
             \E message \in Messages :
                contexts'[held.id].history = Append(contexts[held.id].history, message)
       /\ (/\ Called({"clear_context"}) /\ last'.ret = "True"
           /\ held.live /\ held.id = last'.id) =>
             /\ HeldSeq' = contexts'[last'.id].history
             /\ HeldSeq' = <<>>
      ]_vars

\* C20: the file of a record belongs to its identifier alone and gives the
\* identifier back: a save under one identifier leaves the file of every
\* other live record as it was, and a ContextManager constructed right after
\* a save has the saved record under the identifier it was saved under.
C20_FileNameInjective ==
    [][/\ (Called({"add_message", "clear_context"}) /\ last'.io = "ok") =>
             \A k \in (DOMAIN contexts \cap DOMAIN contexts') \ {last'.id} :
                k \notin last'.swept =>
                   files'[file_path(k)] = files[file_path(k)]
       /\ (/\ last'.op = "__init__"
           /\ last.op \in {"add_message", "clear_context"} /\ last.io = "ok") =>
             /\ last.id \in DOMAIN contexts'
             /\ contexts'[last.id].history = PortableSeq(contexts[last.id].history)
      ]_vars

\* C23: the sweep of a lookup removes the records whose age at the time of
\* the call is strictly greater than max_context_age and no other: every
\* record that is not that old, one whose age is exactly max_context_age
\* among them, stays in the mapping, and but for the record the lookup was
\* made for it and its file are as they were.
C23_SweepIsExact ==
    [][Returned(Lookups) =>
         \A k \in DOMAIN contexts :
            /\ TooOld(contexts[k], now) =>
                  (k \in DOMAIN contexts' => k = last'.id /\ contexts'[k].last_updated = now)
            /\ ~TooOld(contexts[k], now) =>
                  /\ k \in DOMAIN contexts'
                  /\ contexts'[k].metadata = contexts[k].metadata
                  /\ k # last'.id =>
                        /\ contexts'[k] = contexts[k]
                        /\ files'[file_path(k)] = files[file_path(k)]
                  /\ k = last'.id /\ last'.op # "add_message" =>
                        /\ contexts'[k].history = contexts[k].history
                        /\ files'[file_path(k)] = files[file_path(k)]
      ]_vars

\* a lookup on one identifier has kept the record and the file of another
\* whose age is exactly max_context_age
C23_Witness ==
    /\ last.op \in Lookups /\ last.ret = "ok"
    /\ \E k \in DOMAIN contexts :
          /\ k # last.id
          /\ contexts[k].last_updated # None
          /\ now - contexts[k].last_updated = max_context_age
          /\ files[file_path(k)].kind = "doc"

\* a file whose document carries a last_updated that fromisoformat reads
Dated(f) == f.kind = "doc" /\ f.last_updated # NoKey /\ IsIsoString(f.last_updated)
PersistedAge(f, t) == t - fromisoformat(f.last_updated)

\* C24: ages are compared from the first lookup on a newly constructed store:
\* when that lookup returns, a record whose persisted last_updated is more
\* than max_context_age old has left the mapping and its file is gone (for
\* the identifier asked for, a new record has taken its place), and a record
\* whose persisted last_updated is not that old is in the mapping with the
\* history of its file (followed by the entry the call appends, if any).
C24_AgeValidAfterRestart ==
    [][(Returned(Lookups) /\ last'.first) =>
         \A p \in Paths :
            (InDir(p) /\ Dated(files[p])) =>
               /\ PersistedAge(files[p], now) > max_context_age =>
                     /\ p # last'.id => p \notin DOMAIN contexts' /\ files'[p] = NoFile
                     /\ p = last'.id =>
                           /\ contexts'[p].last_updated = now
                           /\ contexts'[p].metadata = {}
                           /\ Len(contexts'[p].history) =
                                 (IF last'.op = "add_message" THEN 1 ELSE 0)
                           /\ files'[p] # files[p]
               /\ PersistedAge(files[p], now) <= max_context_age =>
                     /\ p \in DOMAIN contexts'
                     /\ \/ contexts'[p].history = files[p].history
                        \/ /\ p = last'.id /\ last'.op = "add_message"
                           /\ Len(contexts'[p].history) = Len(files[p].history) + 1
                           /\ SubSeq(contexts'[p].history, 1, Len(files[p].history))
                                 = files[p].history
      ]_vars

\* the first lookup on a store constructed 25 hours after a record was saved
\* has swept that record and its file
C24_Witness ==
    /\ last.op \in Lookups /\ last.ret = "ok" /\ last.first
    /\ now > max_context_age
    /\ \E k \in last.swept : k # last.id /\ k \notin DOMAIN contexts /\ files[k] = NoFile

\* C25: a record older than max_context_age is never made live again by a
\* call: after any call it has left the mapping, or kept its old
\* last_updated, or given way to a new record that holds no metadata and no
\* entry from before.
C25_ExpiredStaysDead ==
    [][Called(Lookups \cup {"clear_context", "delete_context"}) =>
         \A k \in DOMAIN contexts :
            (TooOld(contexts[k], now) /\ k \in DOMAIN contexts') =>
               \/ contexts'[k].last_updated = contexts[k].last_updated
               \/ /\ contexts'[k].metadata = {}
                  /\ Len(contexts'[k].history) =
                        (IF last'.op = "add_message" /\ last'.ret = "ok" THEN 1 ELSE 0)
                  /\ k = last'.id /\ last'.op \in Lookups
      ]_vars

\* C26: a record that is live when the process stops, and whose history is
\* in its file, is live in the store constructed at that instant on the same
\* directory: it is loaded with that history and an age the sweep of the
\* first lookup does not take for expired.
C26_SlidingSurvivesRestart ==
    [][Restart =>
         \A k \in DOMAIN contexts :
            (/\ ~TooOld(contexts[k], now)
             /\ Dated(files[file_path(k)])
             /\ files[file_path(k)].history = PortableSeq(contexts[k].history)
             /\ files[file_path(k)].metadata = contexts[k].metadata) =>
               /\ k \in DOMAIN contexts'
               /\ contexts'[k].history = PortableSeq(contexts[k].history)
               /\ ~IsExpired(contexts'[k], now)
      ]_vars

\* C27: when add_message or clear_context has returned and its write
\* succeeded, the file of that identifier holds the record as it is in
\* memory: as many entries, each the portable form of the entry at the same
\* place, the same instant of last_updated and the same metadata; and the
\* record in memory is what the call made it, with the time of the call as
\* last_updated and the entries as the callers gave them.
C27_FileMirrorsRecord ==
    [][(/\ Called({"add_message", "clear_context"})
        /\ last'.ret \in {"ok", "True"} /\ last'.io = "ok") =>
          LET rec == contexts'[last'.id]
              doc == files'[file_path(last'.id)] IN
          /\ doc.kind = "doc"
          /\ Len(doc.history) = Len(rec.history)
          /\ \A i \in 1..Len(rec.history) : doc.history[i] = Portable(rec.history[i])
          /\ IsIsoString(doc.last_updated)
          /\ fromisoformat(doc.last_updated) = rec.last_updated
          /\ doc.metadata = rec.metadata
          /\ rec.last_updated = now
          /\ rec.history = appended'[last'.id]
      ]_vars

\* add_message has saved a record of two entries, one of them a message
\* object, and the file holds both in portable form
C27_Witness ==
    /\ last.op = "add_message" /\ last.ret = "ok" /\ last.io = "ok"
    /\ Len(contexts[last.id].history) = 2
    /\ \E i \in 1..2 : contexts[last.id].history[i].model
    /\ files[file_path(last.id)] = Serialize(contexts[last.id])
    /\ files[file_path(last.id)].history # contexts[last.id].history

\* C28: every file of the storage directory is the file of a record of the
\* mapping, the one delete_context or the sweep removes with that record.
C28_NoOrphanFiles ==
    \A p \in Paths :
       (InDir(p) /\ files[p] # NoFile) =>
          \E k \in DOMAIN contexts : file_path(k) = p

\* C29: every record a lookup leaves in the mapping carries a last_updated
\* the sweep can compare, and that last_updated is no more than
\* max_context_age in the past: a record that was not touched for longer has
\* been removed by the lookup, whatever identifier it was made for.
C29_NoRecordStaysForever ==
    [][Returned(Lookups) =>
         \A k \in DOMAIN contexts' :
            /\ contexts'[k].last_updated # None
            /\ now - contexts'[k].last_updated <= max_context_age
      ]_vars

\* the step is a request to /a2a/telex handled up to its response or up to
\* the await of its webhook; the step ends a request with a response
Requests == {"message/send", "execute"}
Answered == now' = now /\ last'.op \in Requests \cup {"send_webhook_response"}
                      /\ last'.res # NoResult
\* the result a request step has built: the one of its response, or the one
\* its handler holds while the webhook is sent
Built(res) ==
    \/ last'.res = res
    \/ \E h \in Handlers : inflight[h] = Idle /\ inflight'[h] # Idle /\ inflight'[h].res = res
\* the last two entries of a history are a user message and the reply to it
EndsWithTurn(history, reply) ==
    /\ Len(history) >= 2
    /\ history[Len(history)] = reply
    /\ history[Len(history) - 1] \in UserMessages
    /\ reply.text \in generate_response(history[Len(history) - 1].text)

C22_MessageSendAnswered ==
    [][Called({"message/send"}) =>
         \E res \in {last'.res} \cup {inflight'[h].res : h \in Handlers} :
            /\ Built(res)
            /\ res.kind = "result" /\ res.state = "completed"
            /\ last'.id \in DOMAIN contexts'
            /\ EndsWithTurn(contexts'[last'.id].history, res.message)
      ]_vars

====
